---- MODULE Spec2Model ----
(***************************************************************************)
(* A model of brainstate.transform.StatefulFunction                        *)
(* (src/brainstate/transform/_make_jaxpr.py): the wrapper that traces a    *)
(* function once per cache key, records the State cells it touches, and    *)
(* replays the traced artifact with explicit state values.                 *)
(*                                                                         *)
(* The wrapped function is data: a short program of State reads and writes *)
(* around an accumulator, with a closing statement.  Tracing interprets it *)
(* symbolically (every touched cell becomes a formal input of the          *)
(* artifact), replay evaluates the artifact on positional inputs, and      *)
(* DirectExec runs the same program on concrete values.                    *)
(***************************************************************************)
EXTENDS Integers, Sequences, FiniteSets, TLC

-----------------------------------------------------------------------------
(* Bounds of the model *)

\* longest body (number of State reads/writes) of a wrapped function
MaxProg == 2
\* longest body of the functions whose traces are examined record by record
MaxLongProg == 6
\* largest value a State cell may hold (write-backs beyond it are not explored)
MaxVal == 20
\* the State cells that exist (identity = the name)
Cells == {"s1", "s2"}
\* values of the positional argument x
ArgVals == {0, 5}
\* shapes of the positional argument x
Shapes == {"f32[1]"}
\* values external code assigns to a cell between calls
ExtVals == {0, 10}
\* values used as explicit state values of jaxpr_call
InVals == {5, 10}
\* the lists of explicit state values handed to jaxpr_call: every length up
\* to one more than the number of cells
StateValLists == UNION {[1..m -> InVals] : m \in 0..(Cardinality(Cells) + 1)}
\* cache-key policies a wrapper is constructed with
CacheTypes == {"None"}
\* values a cell may hold after construction
InitVals == {10}

\* a leaked tracer object held by a cell (not a number)
Tracer == 0 - 1

Range(s) == {s[i] : i \in 1..Len(s)}

SeqsUpTo(S, n) == UNION {[1..m -> S] : m \in 0..n}

IndexOf(s, e) == CHOOSE i \in 1..Len(s) : s[i] = e

\* G applied to the value of v, with v computed once
With(v, G(_)) == CHOOSE y \in {G(r) : r \in {v}} : TRUE

-----------------------------------------------------------------------------
(* Traced values: linear forms over the artifact's formal inputs *)

\* names of the positional arguments of the wrapped function, by position
ArgNames == <<"x", "y">>

\* formal inputs: one per dynamic argument and one per accessed cell
Vars == Cells \cup Range(ArgNames)

Const(n) == [k |-> n, c |-> [v \in Vars |-> 0]]

InputSym(v) == [k |-> 0, c |-> [w \in Vars |-> IF w = v THEN 1 ELSE 0]]

AddExpr(a, b) == [k |-> a.k + b.k, c |-> [v \in Vars |-> a.c[v] + b.c[v]]]

IsInput(e, v) == e = InputSym(v)

-----------------------------------------------------------------------------
(* The wrapped function *)

\* one statement of the body: read a cell into the accumulator, or assign
\* the accumulator to a cell
Ops == [op : {"rd", "wr"}, cell : Cells]

\* how the function ends:
\*   none     returns None            acc      returns the accumulator
\*   state    returns a State (bare)  nested   returns a State inside a container
\*   badtype  returns a value the trace compiler rejects
\*   raise    raises                  mismatch assigns a value of another
\*                                             structure to a cell, returns None
Ends == {"none", "acc", "state", "nested", "badtype", "raise", "mismatch"}

Funs == [body : SeqsUpTo(Ops, MaxProg), end : Ends]

\* targets that are not plain functions; end names what the target is:
\*   notcallable       an object without __call__
\*   generator         a generator function: calling it returns a generator
\*                     object and runs none of its body
\*   staticmethod      a staticmethod object on Python 3.10 or later, where
\*                     it is callable and runs the function it wraps
\*   staticmethod_old  a staticmethod object on an earlier Python, where it
\*                     is not callable
TargetEnds == {"notcallable", "generator", "staticmethod", "staticmethod_old"}

TargetFuns == [body : SeqsUpTo(Ops, MaxProg), end : TargetEnds]

\* calling the target raises TypeError: it has no __call__
NotCallable(f) == f.end \in {"notcallable", "staticmethod_old"}

\* calling the target runs its body
RunsBody(f) == f.end \notin {"notcallable", "staticmethod_old", "generator"}

\* the positional arguments of a call: one argument x
Args == {<<a>> : a \in [shape : Shapes, val : ArgVals]}

-----------------------------------------------------------------------------
(* State and StateTrace (brainstate._state): the recording context *)

\* a fresh StateTrace; val is the value each cell holds while the trace runs
\* (cells not yet accessed still hold their concrete value)
NewStateTrace(cells) ==
  [states |-> <<>>, types |-> <<>>, org |-> <<>>,
   val |-> [c \in Cells |-> Const(cells[c])]]

\* first access of a cell: one record tagged read, a snapshot of the value the
\* cell holds, and a fresh formal input that replaces the cell's value
read_its_value(t, c, cells) ==
  IF c \in Range(t.states) THEN t
  ELSE [states |-> Append(t.states, c),
        types |-> Append(t.types, "read"),
        org |-> Append(t.org, cells[c]),
        val |-> [t.val EXCEPT ![c] = InputSym(c)]]

\* a tracer that adds a record at every write
WriteAppendsRecord(t, c, cells) ==
  [states |-> Append(t.states, c),
   types |-> Append(t.types, "write"),
   org |-> Append(t.org, cells[c]),
   val |-> [t.val EXCEPT ![c] = InputSym(c)]]

\* a write: a new record tagged write, or the cell's read record upgraded to
\* read-write in place
write_its_value(t, c, cells) ==
  IF c \in Range(t.states)
  THEN LET i == IndexOf(t.states, c)
       IN [t EXCEPT !.types[i] = IF @ = "read" THEN "read-write" ELSE @]
  ELSE LET r == read_its_value(t, c, cells)
       IN [r EXCEPT !.types[Len(r.types)] = "write"]

\* State.value (getter) under an active trace: records the read, returns the
\* traced value
StateGet(t, c, cells) == read_its_value(t, c, cells)

\* State.value = v (setter) under an active trace: records the write, then
\* stores v
StateSet(t, c, v, cells) ==
  [write_its_value(t, c, cells) EXCEPT !.val[c] = v]

\* the value of every cell while (and, if never restored, after) a trace
\* runs: touched cells hold tracer objects
CellsUnderTrace(t, cells) ==
  [c \in Cells |-> IF c \in Range(t.states) THEN Tracer ELSE cells[c]]

\* StateTrace.recovery_original_values: every recorded cell gets back the
\* value snapshotted at its first access
recovery_original_values(t, cur) ==
  [c \in Cells |-> IF c \in Range(t.states)
                   THEN t.org[IndexOf(t.states, c)] ELSE cur[c]]

\* StateTrace.collect_values: the current traced value of every
\* record whose category is asked for, in record order; a read-write record
\* belongs to both categories
InCategories(ty, cats) ==
  \/ ty \in cats
  \/ ty = "read-write" /\ cats \cap {"read", "write"} # {}

RECURSIVE collect_values(_, _, _)
collect_values(t, cats, i) ==
  IF i > Len(t.states) THEN <<>>
  ELSE (IF InCategories(t.types[i], cats) THEN <<t.val[t.states[i]]>> ELSE <<>>)
       \o collect_values(t, cats, i + 1)

\* the records a StateTrace keeps once the trace is over
TraceRecord(t) == [states |-> t.states, types |-> t.types]

-----------------------------------------------------------------------------
(* Running the wrapped function under a trace: the call of self.fun *)

\* the accumulator starts as x: a formal input when x is dynamic, its
\* concrete value when x is static
ArgExpr(args, static_argnums) ==
  IF 0 \in Range(static_argnums) THEN Const(args[1].val) ELSE InputSym("x")

RECURSIVE RunBody(_, _, _, _, _)
RunBody(body, i, t, acc, cells) ==
  IF i > Len(body) THEN [t |-> t, acc |-> acc]
  ELSE LET o == body[i] IN
       IF o.op = "rd"
       THEN With(StateGet(t, o.cell, cells),
                 LAMBDA t1 : RunBody(body, i + 1, t1, AddExpr(acc, t1.val[o.cell]), cells))
       ELSE With(StateSet(t, o.cell, acc, cells),
                 LAMBDA t1 : RunBody(body, i + 1, t1, acc, cells))

\* the value of x at which a "raise5" function raises (if x == 5: raise ...);
\* on any other value it returns None
RaisingVal == 5

\* the cell the closing statement of a "mismatch" function assigns to
MismatchCell == "s1"

\* [t, acc, raised, badtree]: the trace after the call, the accumulator,
\* whether the function raised, and the cells left holding a value of the
\* wrong structure
RunFun(f, args, static_argnums, cells) ==
  With(RunBody(IF RunsBody(f) THEN f.body ELSE <<>>, 1, NewStateTrace(cells),
               ArgExpr(args, static_argnums), cells),
       LAMBDA r :
         IF f.end = "mismatch"
         THEN [t |-> StateSet(r.t, MismatchCell, r.acc, cells), acc |-> r.acc,
               raised |-> FALSE, badtree |-> {MismatchCell}]
         ELSE [t |-> r.t, acc |-> r.acc,
               raised |-> \/ f.end = "raise"
                          \/ NotCallable(f)
                          \/ f.end = "raise5" /\ args[1].val = RaisingVal,
               badtree |-> {}])

-----------------------------------------------------------------------------
(* State of a StatefulFunction and of the State cells it borrows *)

VARIABLES
  fun,              \* self.fun: the wrapped function
  static_argnums,   \* self.static_argnums: tuple of 0-based positions
  cache_type,       \* self.cache_type: "None" or "jit"
  state_returns,    \* self.state_returns: tuple of categories
  constructed,      \* __init__ has returned: the wrapper exists
  frame,            \* the call of make_jaxpr that is inside self.fun, if any
  cell_tree,        \* the tree structure of the value every State cell holds
  _jaxpr,           \* self._jaxpr: cache key -> artifact
  _out_shapes,      \* self._out_shapes: cache key -> (out_shapes, state_shapes)
  _jaxpr_out_tree,  \* self._jaxpr_out_tree: cache key -> structure of the outputs
  _state_trace,     \* self._state_trace: cache key -> access records
  cells,            \* the value every State cell holds
  result            \* the last finished call: what it was given and what it gave back

tables == <<_jaxpr, _out_shapes, _jaxpr_out_tree, _state_trace>>
\* what a call that runs from start to end in one step leaves alone: the
\* constructor's arguments and the call that is in flight around it
config == <<fun, static_argnums, cache_type, state_returns, constructed, frame, cell_tree>>
vars == <<fun, static_argnums, cache_type, state_returns, constructed, frame, cell_tree, _jaxpr, _out_shapes, _jaxpr_out_tree,
          _state_trace, cells, result>>

Empty == <<>>

\* no call of make_jaxpr is inside self.fun
NoFrame == [active |-> FALSE]

\* the default of the constructor's state_returns
DefaultStateReturns == <<"read", "write">>

\* dict.pop(key) with the KeyError swallowed; dict[key] = v
Pop(table, key) == [k \in DOMAIN table \ {key} |-> table[k]]
Put(table, key, v) == [k \in DOMAIN table \cup {key} |-> IF k = key THEN v ELSE table[k]]

\* errors, by the exception that reaches the caller
ErrNone == "none"
ErrNotTraced == "ValueError: the function is not called with the static arguments"
ErrReturnedState == "ValueError: State object is not allowed to be returned"
ErrKey == "KeyError"
ErrLen == "AssertionError: State length mismatch."
ErrUser == "exception raised by the wrapped function"
ErrTree == "StructuralMismatch"
ErrCompiler == "TypeError raised by the trace compiler"
ErrTracer == "UnexpectedTracerError"
ErrCheck == "TypeError raised by _check_callable"
ErrNotCallable == "TypeError: object is not callable"
ErrAssert == "AssertionError"
ErrInvalidCache == "ValueError: Invalid cache type"

\* what a finished call leaves in result
Res(op, args, key, err) ==
  [op |-> op, args |-> args, key |-> key, err |-> err,
   ran |-> FALSE,            \* the wrapped function was executed by this call
   again |-> FALSE,          \* the call before it was the same call
   samekey |-> FALSE,        \* the call before it was the same operation on other
                             \* arguments that have the same key
   state_vals |-> <<>>,      \* state values handed in
   new_state_vals |-> <<>>,  \* state values handed back
   out |-> <<>>,             \* leaves of the returned output
   states |-> <<>>,          \* State cells handed back
   dropped |-> {},           \* keys that had cache entries when clear_cache emptied the tables
   retrace |-> FALSE]        \* the call traces a key the clear_cache just before it dropped

-----------------------------------------------------------------------------
(* Cache-key builder *)

\* a descriptor that keeps the data
AbstractifyKeepsData(x) == x

\* wrapped_abstractify: shape and element kind, never the data
wrapped_abstractify(x) == [shape |-> x.shape]

\* a key made of all the arguments, the dynamic ones too
KeyOfAllArgs(args) == args

\* get_arg_cache_key
get_arg_cache_key(args) ==
  LET pos == [i \in 1..Len(args) |-> i - 1]
      isStatic(i) == i \in Range(static_argnums)
      isDyn(i) == i \notin Range(static_argnums)
      given(i) == i < Len(args)
  IN IF cache_type = "jit"
     THEN LET st == SelectSeq(pos, isStatic)
              dy == SelectSeq(pos, isDyn)
          IN << [j \in 1..Len(st) |-> args[st[j] + 1]],
                [j \in 1..Len(dy) |-> wrapped_abstractify(args[dy[j] + 1])],
                <<>> >>
     ELSE LET st == SelectSeq(static_argnums, given)
          IN [j \in 1..Len(st) |-> args[st[j] + 1]]

\* lines 318-319: get_arg_cache_key reaches its last branch and raises
InvalidCacheType == cache_type \notin {"jit", "None"}

\* every key a call or an accessor may name: the keys of all calls, and the
\* accessors' default key ()
Keys == {get_arg_cache_key(a) : a \in Args} \cup {<<>>}

-----------------------------------------------------------------------------
(* Trace driver *)

\* a check that looks at the returned object only, not into containers
ReturnsStateBareOnly(f) == f.end = "state"

\* lines 377-379: some leaf of the returned value is a State
ReturnsState(f) == f.end \in {"state", "nested"}

\* the restoring call left out
RecoverSkipped(t, during) == during

\* line 373: the call of recovery_original_values after the with block
Recover(t, during) == recovery_original_values(t, during)

\* a collection of the written cells only
CollectedWritten == {"write"}

\* line 372: collect_values('read', 'write', check_val_tree=True)
CollectedCategories == {"read", "write"}

\* _wrapped_fun_to_eval: [err, acc, state_values, table, cells], where table
\* is self._state_trace with the new StateTrace stored under the key
_wrapped_fun_to_eval(cache_key, args) ==
  With(RunFun(fun, args, static_argnums, cells),
       LAMBDA r :
         LET during == CellsUnderTrace(r.t, cells)
             table == Put(_state_trace, cache_key, TraceRecord(r.t))
             failed(e) == [err |-> e, acc |-> r.acc, state_values |-> <<>>,
                           table |-> table, cells |-> during]
         IN IF r.raised THEN failed(IF NotCallable(fun) THEN ErrNotCallable ELSE ErrUser)
            ELSE IF r.badtree \cap Range(r.t.states) # {} THEN failed(ErrTree)
            ELSE [err |-> IF ReturnsState(fun) THEN ErrReturnedState ELSE ErrNone,
                  acc |-> r.acc,
                  state_values |-> collect_values(r.t, CollectedCategories, 1),
                  table |-> table,
                  cells |-> Recover(r.t, during)])

\* the formal inputs of the dynamic arguments, in argument order
DynArgVars(args) ==
  LET pos == [i \in 1..Len(args) |-> i - 1]
      isDyn(i) == i \notin Range(static_argnums)
      dy == SelectSeq(pos, isDyn)
  IN [j \in 1..Len(dy) |-> ArgNames[dy[j] + 1]]

\* shape of a State cell's value
StateShape == "f32[1]"

\* what kind of object a callable handed to the trace compiler is
KindOf(f) ==
  CASE f.end \in {"staticmethod", "staticmethod_old"} -> "staticmethod"
    [] f.end = "notcallable" -> "notcallable"
    [] f.end = "generator" -> "generatorfunction"
    [] OTHER -> "function"

\* _check_callable(fun), by the kind of object fun is
_check_callable(kind) ==
  IF kind \in {"staticmethod", "notcallable", "generatorfunction"} THEN ErrCheck
  ELSE ErrNone

\* line 403: the callable make_jaxpr hands to _make_jaxpr, and so to
\* _check_callable, is functools.partial(self._wrapped_fun_to_eval, cache_key),
\* whatever self.fun is
CheckedCallable == "partial"

\* _make_jaxpr(...)(args), return_shape=True: the trace compiler run on
\* _wrapped_fun_to_eval; [err, ran, jaxpr, out_shapes, table, cells], ran
\* telling whether _wrapped_fun_to_eval was entered (the StateTrace opened
\* and self.fun called)
_make_jaxpr(cache_key, args) ==
  IF _check_callable(CheckedCallable) # ErrNone
  THEN [err |-> _check_callable(CheckedCallable), ran |-> FALSE,
        jaxpr |-> <<>>, out_shapes |-> <<>>, table |-> _state_trace, cells |-> cells]
  ELSE
  With(_wrapped_fun_to_eval(cache_key, args),
       LAMBDA w :
         LET outs == IF fun.end = "acc" THEN <<w.acc>> ELSE <<>>
         IN [err |-> IF w.err # ErrNone THEN w.err
                     ELSE IF fun.end \in {"badtype", "generator"} THEN ErrCompiler
                     ELSE ErrNone,
             ran |-> TRUE,
             jaxpr |-> [invars |-> DynArgVars(args) \o w.table[cache_key].states,
                        outvars |-> outs \o w.state_values],
             out_shapes |-> [out |-> [i \in 1..Len(outs) |-> args[1].shape],
                             states |-> [i \in 1..Len(w.state_values) |-> StateShape]],
             table |-> w.table, cells |-> w.cells])

\* jax.tree.structure((out_shapes, state_shapes))
TreeStructure(shapes) == [out |-> Len(shapes.out), states |-> Len(shapes.states)]

\* a wrapper that never finds the key
CacheHitNever(cache_key) == FALSE

\* line 399: the key already has access records
CacheHit(cache_key) == cache_key \in DOMAIN _state_trace

\* an except branch that keeps the entry
RollBackKeeps(table, cache_key) == table

\* an except branch that empties the table
RollBackClears(table, cache_key) == Empty

\* lines 414-418: the except branch drops the key's access records
RollBack(table, cache_key) == Pop(table, cache_key)

\* make_jaxpr(*args): trace unless the key is cached
make_jaxpr(args) ==
  LET cache_key == get_arg_cache_key(args)
      again == result.op = "make_jaxpr" /\ result.args = args
      retrace == result.op = "clear_cache" /\ cache_key \in result.dropped
      samekey == result.op = "make_jaxpr" /\ result.args # args /\ result.key = cache_key
      res(e, ran) == [Res("make_jaxpr", args, cache_key, e)
                        EXCEPT !.ran = ran, !.again = again, !.samekey = samekey,
                               !.retrace = retrace]
  IN IF InvalidCacheType
     THEN /\ result' = Res("make_jaxpr", args, <<>>, ErrInvalidCache)
          /\ UNCHANGED <<tables, cells, config>>
     ELSE
     IF CacheHit(cache_key)
     THEN /\ result' = res(ErrNone, FALSE)
          /\ UNCHANGED <<tables, cells, config>>
     ELSE \E r \in {_make_jaxpr(cache_key, args)} :
            IF r.err = ErrNone
            THEN /\ _state_trace' = r.table
                 /\ _jaxpr_out_tree' = Put(_jaxpr_out_tree, cache_key, TreeStructure(r.out_shapes))
                 /\ _out_shapes' = Put(_out_shapes, cache_key, r.out_shapes)
                 /\ _jaxpr' = Put(_jaxpr, cache_key, r.jaxpr)
                 /\ cells' = r.cells
                 /\ result' = res(ErrNone, r.ran)
                 /\ UNCHANGED config
            ELSE /\ _state_trace' = RollBack(r.table, cache_key)
                 /\ cells' = r.cells
                 /\ result' = res(r.err, r.ran)
                 /\ UNCHANGED <<_jaxpr, _out_shapes, _jaxpr_out_tree, config>>

\* a clear that forgets the access records table
ClearKeepsRecords ==
  /\ _jaxpr' = Empty
  /\ _out_shapes' = Empty
  /\ _jaxpr_out_tree' = Empty
  /\ result' = [Res("clear_cache", <<>>, <<>>, ErrNone)
                  EXCEPT !.dropped = DOMAIN _state_trace \cup DOMAIN _jaxpr]
  /\ UNCHANGED <<_state_trace, cells, config>>

\* clear_cache
clear_cache ==
  /\ _jaxpr' = Empty
  /\ _out_shapes' = Empty
  /\ _jaxpr_out_tree' = Empty
  /\ _state_trace' = Empty
  /\ result' = [Res("clear_cache", <<>>, <<>>, ErrNone)
                  EXCEPT !.dropped = DOMAIN _state_trace \cup DOMAIN _jaxpr]
  /\ UNCHANGED <<cells, config>>

\* user code outside any trace assigns a value to a State cell
ExternalWrite(c, v) ==
  /\ cells' = [cells EXCEPT ![c] = v]
  /\ result' = Res("external_write", <<>>, <<>>, ErrNone)
  /\ UNCHANGED <<tables, config>>

-----------------------------------------------------------------------------
(* Accessors *)

\* an accessor that tests the key: ValueError when the key is not in the table
Lookup(op, table, cache_key, states) ==
  /\ result' = IF cache_key \notin DOMAIN table
               THEN Res(op, <<>>, cache_key, ErrNotTraced)
               ELSE [Res(op, <<>>, cache_key, ErrNone) EXCEPT !.states = states]
  /\ UNCHANGED <<tables, cells, config>>

\* an accessor that indexes the table directly: KeyError when the key is not
\* in it
Subscript(op, table, cache_key, states) ==
  /\ result' = IF cache_key \notin DOMAIN table
               THEN Res(op, <<>>, cache_key, ErrKey)
               ELSE [Res(op, <<>>, cache_key, ErrNone) EXCEPT !.states = states]
  /\ UNCHANGED <<tables, cells, config>>

\* the recorded cells whose category is ty, in record order
StatesOfType(tr, ty) ==
  LET idx == [i \in 1..Len(tr.states) |-> i]
      has(i) == tr.types[i] = ty
      sel == SelectSeq(idx, has)
  IN [j \in 1..Len(sel) |-> tr.states[sel[j]]]

get_jaxpr(cache_key) == Lookup("get_jaxpr", _jaxpr, cache_key, <<>>)

get_out_shapes(cache_key) == Lookup("get_out_shapes", _out_shapes, cache_key, <<>>)

get_out_treedef(cache_key) == Lookup("get_out_treedef", _jaxpr_out_tree, cache_key, <<>>)

\* an accessor that lists the cells category by category
GetStatesByCategory(cache_key) ==
  Lookup("get_states", _state_trace, cache_key,
         IF cache_key \in DOMAIN _state_trace
         THEN StatesOfType(_state_trace[cache_key], "read")
                \o StatesOfType(_state_trace[cache_key], "write")
                \o StatesOfType(_state_trace[cache_key], "read-write")
         ELSE <<>>)

get_states(cache_key) ==
  Lookup("get_states", _state_trace, cache_key,
         IF cache_key \in DOMAIN _state_trace THEN _state_trace[cache_key].states ELSE <<>>)

get_read_states(cache_key) ==
  Subscript("get_read_states", _state_trace, cache_key,
            IF cache_key \in DOMAIN _state_trace
            THEN StatesOfType(_state_trace[cache_key], "read") ELSE <<>>)

get_write_states(cache_key) ==
  Subscript("get_write_states", _state_trace, cache_key,
            IF cache_key \in DOMAIN _state_trace
            THEN StatesOfType(_state_trace[cache_key], "write") ELSE <<>>)

\* get_arg_cache_key called by user code
GetArgCacheKey(args) ==
  /\ result' = IF InvalidCacheType
               THEN Res("get_arg_cache_key", args, <<>>, ErrInvalidCache)
               ELSE Res("get_arg_cache_key", args, get_arg_cache_key(args), ErrNone)
  /\ UNCHANGED <<tables, cells, config>>

-----------------------------------------------------------------------------
(* Replay *)

RECURSIVE SumTerms(_, _, _)
SumTerms(e, env, S) ==
  IF S = {} THEN 0
  ELSE LET v == CHOOSE w \in S : TRUE
       IN e.c[v] * env[v] + SumTerms(e, env, S \ {v})

\* value of a traced expression with its inputs bound by env
EvalExpr(e, env) == e.k + SumTerms(e, env, {v \in DOMAIN env : e.c[v] # 0})

\* an operation of the artifact is applied to a leaked tracer
TouchesTracer(e, env) ==
  \E v \in DOMAIN env : e.c[v] # 0 /\ env[v] = Tracer /\ ~IsInput(e, v)

\* jax.core.eval_jaxpr(jaxpr, consts, *ins): the formal inputs are bound by
\* position, then every output is computed; [err, outs]
eval_jaxpr(jaxpr, ins) ==
  IF Len(ins) # Len(jaxpr.invars)
  THEN [err |-> ErrCompiler, outs |-> <<>>]
  ELSE LET env == [v \in Range(jaxpr.invars) |-> ins[IndexOf(jaxpr.invars, v)]]
       IN IF \E i \in 1..Len(jaxpr.outvars) : TouchesTracer(jaxpr.outvars[i], env)
          THEN [err |-> ErrTracer, outs |-> <<>>]
          ELSE [err |-> ErrNone,
                outs |-> [i \in 1..Len(jaxpr.outvars) |->
                            IF \E v \in DOMAIN env : IsInput(jaxpr.outvars[i], v)
                            THEN env[CHOOSE v \in DOMAIN env : IsInput(jaxpr.outvars[i], v)]
                            ELSE EvalExpr(jaxpr.outvars[i], env)]]

\* the assertion left out
LengthOkAlways(state_vals, states) == TRUE

\* line 438: the assertion on the number of state values
LengthOk(state_vals, states) == Len(state_vals) = Len(states)

\* the non-static arguments, in order
DynArgVals(args) ==
  LET pos == [i \in 1..Len(args) |-> i - 1]
      isDyn(i) == i \notin Range(static_argnums)
      dy == SelectSeq(pos, isDyn)
  IN [j \in 1..Len(dy) |-> args[dy[j] + 1].val]

\* the state values flattened before the arguments
FlattenStateFirst(args, state_vals) == state_vals \o DynArgVals(args)

\* lines 444-445: the non-static arguments flattened, then the state values
FlattenCallArgs(args, state_vals) == DynArgVals(args) \o state_vals

\* a split that takes the state values from the front of the outputs
UnflattenStateFirst(treedef, outs) ==
  [out |-> SubSeq(outs, treedef.states + 1, Len(outs)),
   new_state_vals |-> SubSeq(outs, 1, treedef.states)]

\* out_treedef.unflatten(jaxpr_outs): (out, new_state_vals)
Unflatten(treedef, outs) ==
  [out |-> SubSeq(outs, 1, treedef.out),
   new_state_vals |-> SubSeq(outs, treedef.out + 1, Len(outs))]

\* the body of jaxpr_call: [err, new_state_vals, out]; leaves are the leaves
\* of state_vals as jax.tree.flatten lists them
JaxprCallOn(state_vals, leaves, args) ==
  LET cache_key == get_arg_cache_key(args)
      fail(e) == [err |-> e, new_state_vals |-> <<>>, out |-> <<>>]
  IN IF cache_key \notin DOMAIN _state_trace THEN fail(ErrNotTraced)
     ELSE IF ~LengthOk(state_vals, _state_trace[cache_key].states) THEN fail(ErrLen)
     ELSE IF cache_key \notin DOMAIN _jaxpr \/ cache_key \notin DOMAIN _jaxpr_out_tree
          THEN fail(ErrNotTraced)
     ELSE With(eval_jaxpr(_jaxpr[cache_key], FlattenCallArgs(args, leaves)),
               LAMBDA r :
                 LET u == Unflatten(_jaxpr_out_tree[cache_key], r.outs)
                 IN IF r.err # ErrNone THEN fail(r.err)
                    ELSE IF Len(u.new_state_vals) # Len(state_vals) THEN fail(ErrLen)
                    ELSE [err |-> ErrNone, new_state_vals |-> u.new_state_vals,
                          out |-> u.out])

\* jaxpr_call on state values that are arrays: each is its own leaf
JaxprCall(state_vals, args) == JaxprCallOn(state_vals, state_vals, args)

\* jaxpr_call(state_vals, *args)
jaxpr_call(state_vals, args) ==
  IF InvalidCacheType
  THEN /\ result' = Res("jaxpr_call", args, <<>>, ErrInvalidCache)
       /\ UNCHANGED <<tables, cells, config>>
  ELSE
  \E r \in {JaxprCall(state_vals, args)} :
    /\ result' = [Res("jaxpr_call", args, get_arg_cache_key(args), r.err)
                    EXCEPT !.state_vals = state_vals,
                           !.new_state_vals = r.new_state_vals, !.out = r.out]
    /\ UNCHANGED <<tables, cells, config>>

\* the returned values dropped
WriteBackSkipped(states, state_vals) == cells

\* lines 474-475: the i-th returned value is assigned to the i-th recorded cell
WriteBack(states, state_vals) ==
  [c \in Cells |-> IF c \in Range(states) THEN state_vals[IndexOf(states, c)]
                   ELSE cells[c]]

\* positions of the recorded cells whose setter rejects a returned value:
\* the artifact returns for a cell a value of the structure the cell had at
\* trace time, an array, and the cell now holds a value of another structure
Rejecting(states) == {i \in 1..Len(states) : cell_tree[states[i]] # "array"}

\* lines 474-475 left at the n-th assignment, which raises: the cells before
\* it have been assigned
WriteBackUntil(states, state_vals, n) ==
  [c \in Cells |-> IF c \in Range(SubSeq(states, 1, n - 1))
                   THEN state_vals[IndexOf(states, c)] ELSE cells[c]]

\* the current value of every recorded cell, in record order
CurrentValues(states) == [i \in 1..Len(states) |-> cells[states[i]]]

\* jaxpr_call_auto(*args)
jaxpr_call_auto(args) ==
  LET cache_key == get_arg_cache_key(args)
      again == result.op = "jaxpr_call_auto" /\ result.args = args /\ result.err = ErrNone
      res(e) == [Res("jaxpr_call_auto", args, cache_key, e) EXCEPT !.again = again]
  IN IF InvalidCacheType
     THEN /\ result' = Res("jaxpr_call_auto", args, <<>>, ErrInvalidCache)
          /\ UNCHANGED <<tables, cells, config>>
     ELSE
     IF cache_key \notin DOMAIN _state_trace
     THEN /\ result' = res(ErrNotTraced)
          /\ UNCHANGED <<tables, cells, config>>
     ELSE \E states \in {_state_trace[cache_key].states} :
          \E state_vals \in {CurrentValues(states)} :
          \E r \in {JaxprCall(state_vals, args)} :
            IF r.err # ErrNone
            THEN /\ result' = res(r.err)
                 /\ UNCHANGED <<tables, cells, config>>
            ELSE /\ \A i \in 1..Len(r.new_state_vals) : r.new_state_vals[i] <= MaxVal
                 /\ IF Rejecting(states) = {}
                    THEN /\ cells' = WriteBack(states, r.new_state_vals)
                         /\ result' = [res(ErrNone) EXCEPT !.state_vals = state_vals,
                                          !.new_state_vals = r.new_state_vals,
                                          !.out = r.out]
                    ELSE /\ cells' = WriteBackUntil(
                                       states, r.new_state_vals,
                                       CHOOSE n \in Rejecting(states) :
                                         \A m \in Rejecting(states) : n <= m)
                         /\ result' = [res(ErrTree) EXCEPT !.state_vals = state_vals]
                 /\ UNCHANGED <<tables, config>>

-----------------------------------------------------------------------------

Init ==
  /\ fun \in Funs
  /\ static_argnums \in {<<>>, <<0>>}
  /\ cache_type \in CacheTypes
  /\ state_returns = DefaultStateReturns
  /\ constructed = TRUE
  /\ frame = NoFrame
  /\ cell_tree = [c \in Cells |-> "array"]
  /\ _jaxpr = Empty
  /\ _out_shapes = Empty
  /\ _jaxpr_out_tree = Empty
  /\ _state_trace = Empty
  /\ cells \in [Cells -> InitVals]
  /\ result = Res("init", <<>>, <<>>, ErrNone)

\* the calls that can change the tables or the cells
Commands == {"init", "make_jaxpr", "jaxpr_call_auto", "clear_cache", "external_write"}

\* A caller issues its queries (jaxpr_call, the accessors, get_arg_cache_key)
\* right after a command.  A query changes neither the tables nor the cells,
\* so a query issued after another query starts from the same tables and
\* cells and gives the same answer as the one issued right after the command.
AfterCommand == result.op \in Commands

Next ==
  \/ \E args \in Args : make_jaxpr(args)
  \/ \E args \in Args : jaxpr_call_auto(args)
  \/ clear_cache
  \/ AfterCommand /\ \E args \in Args, state_vals \in StateValLists :
       jaxpr_call(state_vals, args)
  \/ AfterCommand /\ \E cache_key \in Keys : get_jaxpr(cache_key)
  \/ AfterCommand /\ \E cache_key \in Keys : get_out_shapes(cache_key)
  \/ AfterCommand /\ \E cache_key \in Keys : get_out_treedef(cache_key)
  \/ AfterCommand /\ \E cache_key \in Keys : get_states(cache_key)
  \/ AfterCommand /\ \E cache_key \in Keys : get_read_states(cache_key)
  \/ AfterCommand /\ \E cache_key \in Keys : get_write_states(cache_key)
  \/ AfterCommand /\ \E args \in Args : GetArgCacheKey(args)
  \/ \E c \in Cells, v \in ExtVals : ExternalWrite(c, v)

Spec == Init /\ [][Next]_vars

-----------------------------------------------------------------------------
(* Traces examined record by record: a wrapper of a longer function that   *)
(* returns its accumulator, with no static argument, traced, queried and   *)
(* cleared                                                                 *)

LongFuns == [body : SeqsUpTo(Ops, MaxLongProg), end : {"acc"}]

TraceInit ==
  /\ fun \in LongFuns
  /\ static_argnums = <<>>
  /\ cache_type \in CacheTypes
  /\ state_returns = DefaultStateReturns
  /\ constructed = TRUE
  /\ frame = NoFrame
  /\ cell_tree = [c \in Cells |-> "array"]
  /\ _jaxpr = Empty
  /\ _out_shapes = Empty
  /\ _jaxpr_out_tree = Empty
  /\ _state_trace = Empty
  /\ cells \in [Cells -> InitVals]
  /\ result = Res("init", <<>>, <<>>, ErrNone)

TraceNext ==
  \/ \E args \in Args : make_jaxpr(args)
  \/ clear_cache
  \/ AfterCommand /\ \E cache_key \in Keys : get_states(cache_key)

TraceSpec == TraceInit /\ [][TraceNext]_vars

-----------------------------------------------------------------------------
(* Cache keys: a wrapper of f(x, y = ...) = s1.set(x + s1.get()), under    *)
(* either key policy and several choices of static positions, called with  *)
(* one or two arguments of two shapes                                      *)

\* most keys a wrapper is made to hold at a time
MaxKeys == 2

KeyShapes == {"f32[1]", "f32[2]"}

KeyArgVals == [shape : KeyShapes, val : ArgVals]

\* calls f(x) and f(x, y): x of either shape and value, y of either shape
KeyArgs == {<<x>> : x \in KeyArgVals}
           \cup {<<x, y>> : x \in KeyArgVals, y \in {v \in KeyArgVals : v.val = 0}}

KeyStatics == {<<>>, <<0>>, <<1>>, <<0, 1>>, <<1, 0>>, <<2>>}

KeyPolicies == {"None", "jit"}

KeyInit ==
  /\ fun = [body |-> <<[op |-> "rd", cell |-> "s1"], [op |-> "wr", cell |-> "s1"]>>,
            end |-> "none"]
  /\ static_argnums \in KeyStatics
  /\ cache_type \in KeyPolicies
  /\ state_returns = DefaultStateReturns
  /\ constructed = TRUE
  /\ frame = NoFrame
  /\ cell_tree = [c \in Cells |-> "array"]
  /\ _jaxpr = Empty
  /\ _out_shapes = Empty
  /\ _jaxpr_out_tree = Empty
  /\ _state_trace = Empty
  /\ cells \in [Cells -> InitVals]
  /\ result = Res("init", <<>>, <<>>, ErrNone)

KeyNext ==
  \/ \E args \in KeyArgs :
       /\ Cardinality(DOMAIN _state_trace \cup {get_arg_cache_key(args)}) <= MaxKeys
       /\ make_jaxpr(args)
  \/ clear_cache
  \/ AfterCommand /\ \E args \in KeyArgs : GetArgCacheKey(args)

KeySpec == KeyInit /\ [][KeyNext]_vars

-----------------------------------------------------------------------------
(* Construction: a wrapper is requested with any cache_type                *)

\* cache_type values a caller may pass to the constructor
PolicyArgs == {"None", "jit", "lru", "JIT"}

\* an assertion that lets every value through
CacheTypeOkAlways(ct) == TRUE

\* line 197: assert cache_type in [None, 'jit']
CacheTypeOk(ct) == ct \in {"None", "jit"}

\* StatefulFunction(f, static_argnums=sa, cache_type=ct): lines 190-204. A
\* failed assertion leaves the constructor by an exception and the caller has
\* no wrapper.
__init__(f, sa, ct) ==
  /\ ~constructed
  /\ IF CacheTypeOk(ct)
     THEN /\ fun' = f
          /\ static_argnums' = sa
          /\ state_returns' = DefaultStateReturns
          /\ cache_type' = ct
          /\ _jaxpr' = Empty
          /\ _out_shapes' = Empty
          /\ _jaxpr_out_tree' = Empty
          /\ _state_trace' = Empty
          /\ constructed' = TRUE
          /\ result' = Res("__init__", <<ct>>, <<>>, ErrNone)
          /\ UNCHANGED <<cells, frame, cell_tree>>
     ELSE /\ result' = Res("__init__", <<ct>>, <<>>, ErrAssert)
          /\ UNCHANGED <<tables, cells, config>>

\* no wrapper yet; the fields are read by nobody until __init__ has set them
ConstructInit ==
  /\ constructed = FALSE
  /\ frame = NoFrame
  /\ cell_tree = [c \in Cells |-> "array"]
  /\ fun = [body |-> <<>>, end |-> "none"]
  /\ static_argnums = <<>>
  /\ cache_type = "None"
  /\ state_returns = DefaultStateReturns
  /\ _jaxpr = Empty
  /\ _out_shapes = Empty
  /\ _jaxpr_out_tree = Empty
  /\ _state_trace = Empty
  /\ cells \in [Cells -> InitVals]
  /\ result = Res("init", <<>>, <<>>, ErrNone)

ConstructNext ==
  \/ \E sa \in KeyStatics, ct \in PolicyArgs :
       __init__([body |-> <<[op |-> "rd", cell |-> "s1"], [op |-> "wr", cell |-> "s1"]>>,
                 end |-> "none"], sa, ct)
  \/ \E args \in KeyArgs :
       /\ constructed
       /\ Cardinality(DOMAIN _state_trace \cup {get_arg_cache_key(args)}) <= MaxKeys
       /\ make_jaxpr(args)
  \/ constructed /\ clear_cache
  \/ constructed /\ AfterCommand /\ \E args \in KeyArgs : GetArgCacheKey(args)

ConstructSpec == ConstructInit /\ [][ConstructNext]_vars

-----------------------------------------------------------------------------
(* A trace taken statement by statement: between two statements of self.fun *)
(* the function may itself call the wrapper that is tracing it             *)

ReentrantFuns == [body : SeqsUpTo(Ops, MaxProg), end : {"none", "acc", "raise"}]

\* make_jaxpr(*args) up to the call of self.fun: lines 396-399 find no entry,
\* lines 365-366 store a fresh StateTrace under the key
EnterTrace(args) ==
  LET cache_key == get_arg_cache_key(args)
  IN /\ ~frame.active
     /\ ~CacheHit(cache_key)
     /\ _state_trace' = Put(_state_trace, cache_key, TraceRecord(NewStateTrace(cells)))
     /\ frame' = [active |-> TRUE, args |-> args, key |-> cache_key, pc |-> 1,
                  t |-> NewStateTrace(cells), acc |-> ArgExpr(args, static_argnums)]
     /\ UNCHANGED <<_jaxpr, _out_shapes, _jaxpr_out_tree, cells, result,
                    fun, static_argnums, cache_type, state_returns, constructed, cell_tree>>

\* one statement of self.fun under the StateTrace (line 368); the StateTrace
\* stored in the table is the object the statement records into
TraceStep ==
  /\ frame.active
  /\ frame.pc <= Len(fun.body)
  /\ \E o \in {fun.body[frame.pc]} :
     \E t1 \in {IF o.op = "rd" THEN StateGet(frame.t, o.cell, cells)
                ELSE StateSet(frame.t, o.cell, frame.acc, cells)} :
       /\ frame' = [frame EXCEPT !.pc = @ + 1, !.t = t1,
                                 !.acc = IF o.op = "rd" THEN AddExpr(@, t1.val[o.cell])
                                         ELSE @]
       /\ _state_trace' = Put(_state_trace, frame.key, TraceRecord(t1))
       /\ cells' = CellsUnderTrace(t1, cells)
  /\ UNCHANGED <<_jaxpr, _out_shapes, _jaxpr_out_tree, result,
                 fun, static_argnums, cache_type, state_returns, constructed, cell_tree>>

\* self.fun returns or raises: lines 369-373 and 409-418
ExitTrace ==
  /\ frame.active
  /\ frame.pc > Len(fun.body)
  /\ frame' = NoFrame
  /\ IF fun.end = "raise"
     THEN /\ _state_trace' = RollBack(_state_trace, frame.key)
          /\ result' = [Res("make_jaxpr", frame.args, frame.key, ErrUser) EXCEPT !.ran = TRUE]
          /\ UNCHANGED <<_jaxpr, _out_shapes, _jaxpr_out_tree, cells>>
     ELSE \E state_values \in {collect_values(frame.t, CollectedCategories, 1)} :
          \E outs \in {IF fun.end = "acc" THEN <<frame.acc>> ELSE <<>>} :
          \E out_shapes \in {[out |-> [i \in 1..Len(outs) |-> frame.args[1].shape],
                              states |-> [i \in 1..Len(state_values) |-> StateShape]]} :
            /\ cells' = Recover(frame.t, cells)
            /\ _jaxpr_out_tree' = Put(_jaxpr_out_tree, frame.key, TreeStructure(out_shapes))
            /\ _out_shapes' = Put(_out_shapes, frame.key, out_shapes)
            /\ _jaxpr' = Put(_jaxpr, frame.key,
                             [invars |-> DynArgVars(frame.args) \o frame.t.states,
                              outvars |-> outs \o state_values])
            /\ result' = [Res("make_jaxpr", frame.args, frame.key, ErrNone) EXCEPT !.ran = TRUE]
            /\ UNCHANGED _state_trace
  /\ UNCHANGED <<fun, static_argnums, cache_type, state_returns, constructed, cell_tree>>

ReentrantInit ==
  /\ fun \in ReentrantFuns
  /\ static_argnums \in {<<>>, <<0>>}
  /\ cache_type \in CacheTypes
  /\ state_returns = DefaultStateReturns
  /\ constructed = TRUE
  /\ frame = NoFrame
  /\ cell_tree = [c \in Cells |-> "array"]
  /\ _jaxpr = Empty
  /\ _out_shapes = Empty
  /\ _jaxpr_out_tree = Empty
  /\ _state_trace = Empty
  /\ cells \in [Cells -> InitVals]
  /\ result = Res("init", <<>>, <<>>, ErrNone)

\* the calls of the last three lines are made by the caller of the wrapper
\* when no trace is running and by self.fun when one is
ReentrantNext ==
  \/ \E args \in Args : EnterTrace(args)
  \/ TraceStep
  \/ ExitTrace
  \/ ~frame.active /\ clear_cache
  \/ \E args \in Args : CacheHit(get_arg_cache_key(args)) /\ make_jaxpr(args)
  \/ \E cache_key \in Keys : get_states(cache_key)
  \/ \E cache_key \in Keys : get_jaxpr(cache_key)

ReentrantSpec == ReentrantInit /\ [][ReentrantNext]_vars

-----------------------------------------------------------------------------
(* Replay on state values of any tree structure                            *)

\* tree structures of a state value: the array the cell held at trace time,
\* a dict holding one array, a pair of arrays
Trees == {"array", "dict", "pair"}

TreeVals == [tree : Trees, val : InVals]

\* jax.tree.leaves of one state value
TreeLeaves(sv) == IF sv.tree = "pair" THEN <<sv.val, sv.val>> ELSE <<sv.val>>

\* the leaves of a list of state values, in order
RECURSIVE FlattenStateVals(_)
FlattenStateVals(svs) ==
  IF svs = <<>> THEN <<>> ELSE TreeLeaves(Head(svs)) \o FlattenStateVals(Tail(svs))

TreeValLists == UNION {[1..m -> TreeVals] : m \in 0..Cardinality(Cells)}

\* jaxpr_call(state_vals, *args) with state values of any tree structure
jaxpr_call_trees(state_vals, args) ==
  \E r \in {JaxprCallOn(state_vals, FlattenStateVals(state_vals), args)} :
    /\ result' = [Res("jaxpr_call", args, get_arg_cache_key(args), r.err)
                    EXCEPT !.state_vals = state_vals,
                           !.new_state_vals = r.new_state_vals, !.out = r.out]
    /\ UNCHANGED <<tables, cells, config>>

TreeInit ==
  /\ fun \in [body : SeqsUpTo(Ops, MaxProg), end : {"none", "acc"}]
  /\ static_argnums = <<>>
  /\ cache_type \in CacheTypes
  /\ state_returns = DefaultStateReturns
  /\ constructed = TRUE
  /\ frame = NoFrame
  /\ cell_tree = [c \in Cells |-> "array"]
  /\ _jaxpr = Empty
  /\ _out_shapes = Empty
  /\ _jaxpr_out_tree = Empty
  /\ _state_trace = Empty
  /\ cells \in [Cells -> InitVals]
  /\ result = Res("init", <<>>, <<>>, ErrNone)

TreeNext ==
  \/ \E args \in Args : make_jaxpr(args)
  \/ clear_cache
  \/ AfterCommand /\ \E args \in Args, state_vals \in TreeValLists :
       jaxpr_call_trees(state_vals, args)

TreeSpec == TreeInit /\ [][TreeNext]_vars

-----------------------------------------------------------------------------
(* A function that fails for one key and succeeds for another              *)

PerKeyFuns == [body : SeqsUpTo(Ops, MaxProg), end : {"none", "acc", "raise", "raise5"}]

PerKeyInit ==
  /\ fun \in PerKeyFuns
  /\ static_argnums = <<0>>
  /\ cache_type \in CacheTypes
  /\ state_returns = DefaultStateReturns
  /\ constructed = TRUE
  /\ frame = NoFrame
  /\ cell_tree = [c \in Cells |-> "array"]
  /\ _jaxpr = Empty
  /\ _out_shapes = Empty
  /\ _jaxpr_out_tree = Empty
  /\ _state_trace = Empty
  /\ cells \in [Cells -> InitVals]
  /\ result = Res("init", <<>>, <<>>, ErrNone)

PerKeyNext ==
  \/ \E args \in Args : make_jaxpr(args)
  \/ \E args \in Args : jaxpr_call_auto(args)
  \/ clear_cache
  \/ AfterCommand /\ \E cache_key \in Keys : get_states(cache_key)

PerKeySpec == PerKeyInit /\ [][PerKeyNext]_vars

-----------------------------------------------------------------------------
(* A wrapper with no static argument and the static-only policy, called    *)
(* with arguments of several shapes and counts                             *)

\* f(x, ...) = s1.set(x + s1.get()), returning None or the sum
DefaultKeyFuns ==
  [body : {<<[op |-> "rd", cell |-> "s1"], [op |-> "wr", cell |-> "s1"]>>},
   end : {"none", "acc"}]

\* explicit state values of a replay: none, one or two
DefaultKeyStateVals == UNION {[1..m -> InVals] : m \in 0..2}

DefaultKeyInit ==
  /\ fun \in DefaultKeyFuns
  /\ static_argnums = <<>>
  /\ cache_type = "None"
  /\ state_returns = DefaultStateReturns
  /\ constructed = TRUE
  /\ frame = NoFrame
  /\ cell_tree = [c \in Cells |-> "array"]
  /\ _jaxpr = Empty
  /\ _out_shapes = Empty
  /\ _jaxpr_out_tree = Empty
  /\ _state_trace = Empty
  /\ cells \in [Cells -> InitVals]
  /\ result = Res("init", <<>>, <<>>, ErrNone)

DefaultKeyNext ==
  \/ \E args \in KeyArgs : make_jaxpr(args)
  \/ clear_cache
  \/ \E args \in KeyArgs, state_vals \in DefaultKeyStateVals : jaxpr_call(state_vals, args)
  \/ get_states(<<>>)
  \/ get_jaxpr(<<>>)
  \/ \E args \in KeyArgs : GetArgCacheKey(args)

DefaultKeySpec == DefaultKeyInit /\ [][DefaultKeyNext]_vars

-----------------------------------------------------------------------------
(* Cells whose value changes structure between trace and replay            *)

\* user code outside any trace replaces the array a cell holds by a dict
\* holding that array (one leaf, the same data), or puts the array back
ExternalRetree(c, tr) ==
  /\ cell_tree' = [cell_tree EXCEPT ![c] = tr]
  /\ result' = Res("external_write", <<>>, <<>>, ErrNone)
  /\ UNCHANGED <<tables, cells, fun, static_argnums, cache_type, state_returns,
                 constructed, frame>>

WriteBackInit ==
  /\ fun \in [body : SeqsUpTo(Ops, MaxProg), end : {"none", "acc"}]
  /\ static_argnums = <<>>
  /\ cache_type \in CacheTypes
  /\ state_returns = DefaultStateReturns
  /\ constructed = TRUE
  /\ frame = NoFrame
  /\ cell_tree = [c \in Cells |-> "array"]
  /\ _jaxpr = Empty
  /\ _out_shapes = Empty
  /\ _jaxpr_out_tree = Empty
  /\ _state_trace = Empty
  /\ cells \in [Cells -> InitVals]
  /\ result = Res("init", <<>>, <<>>, ErrNone)

\* traces are taken while every cell holds an array
WriteBackNext ==
  \/ \E args \in Args : (\A c \in Cells : cell_tree[c] = "array") /\ make_jaxpr(args)
  \/ \E args \in Args : jaxpr_call_auto(args)
  \/ clear_cache
  \/ \E c \in Cells, tr \in {"array", "dict"} : ExternalRetree(c, tr)

WriteBackSpec == WriteBackInit /\ [][WriteBackNext]_vars

-----------------------------------------------------------------------------
(* Cache keys of calls whose arguments are containers and keywords         *)

\* array leaves (the data does not enter an abstract key; one value)
KeyLeaves == [shape : KeyShapes, val : {0}]

\* a positional argument: an array, or a pair of arrays
TreeArgs == [tree : {"leaf"}, leaves : {<<l>> : l \in KeyLeaves}]
            \cup [tree : {"pair"}, leaves : {<<l, m>> : l \in KeyLeaves, m \in KeyLeaves}]

\* keyword arguments, sorted by name: none, or one array under the name a or b
KwArgs == {<<>>} \cup {<<[name |-> n, leaves |-> <<l>>]>> : n \in {"a", "b"}, l \in KeyLeaves}

\* calls f(p), f(p, q), f(p, a=...), ...
Calls == [args : {<<p>> : p \in TreeArgs} \cup {<<p, q>> : p \in TreeArgs, q \in TreeArgs},
          kwargs : KwArgs]

\* jax.tree.leaves of a list of arguments: the leaves of each, in order
RECURSIVE LeavesOf(_)
LeavesOf(as) == IF as = <<>> THEN <<>> ELSE Head(as).leaves \o LeavesOf(Tail(as))

\* lines 305-314: get_arg_cache_key(*args, **kwargs) with cache_type 'jit'
JitKey(call) ==
  LET isStatic(i) == (i - 1) \in Range(static_argnums)
      isDyn(i) == (i - 1) \notin Range(static_argnums)
      pos == [i \in 1..Len(call.args) |-> i]
      st == SelectSeq(pos, isStatic)
      dy == SelectSeq(pos, isDyn)
      dyn_args == LeavesOf([j \in 1..Len(dy) |-> call.args[dy[j]]])
      dyn_kwargs == LeavesOf(call.kwargs)
  IN << [j \in 1..Len(st) |-> call.args[st[j]]],
        [j \in 1..Len(dyn_args) |-> wrapped_abstractify(dyn_args[j])],
        [j \in 1..Len(dyn_kwargs) |-> wrapped_abstractify(dyn_kwargs[j])] >>

\* get_arg_cache_key called by user code on such a call
GetJitKey(call) ==
  /\ cache_type = "jit"
  /\ result' = Res("get_arg_cache_key", call, JitKey(call), ErrNone)
  /\ UNCHANGED <<tables, cells, config>>

JitKeyInit ==
  /\ fun = [body |-> <<>>, end |-> "none"]
  /\ static_argnums \in {<<>>, <<0>>}
  /\ cache_type = "jit"
  /\ state_returns = DefaultStateReturns
  /\ constructed = TRUE
  /\ frame = NoFrame
  /\ cell_tree = [c \in Cells |-> "array"]
  /\ _jaxpr = Empty
  /\ _out_shapes = Empty
  /\ _jaxpr_out_tree = Empty
  /\ _state_trace = Empty
  /\ cells \in [Cells -> InitVals]
  /\ result = Res("init", <<>>, <<>>, ErrNone)

JitKeyNext == \E call \in Calls : GetJitKey(call)

JitKeySpec == JitKeyInit /\ [][JitKeyNext]_vars

-----------------------------------------------------------------------------
(* Wrappers constructed with a choice of state_returns                     *)

StateReturnsChoices == {<<"read">>, <<"write">>, <<"read", "write">>}

ReturnsInit ==
  /\ fun \in [body : SeqsUpTo(Ops, MaxProg), end : {"none", "acc"}]
  /\ static_argnums = <<>>
  /\ cache_type \in CacheTypes
  /\ state_returns \in StateReturnsChoices
  /\ constructed = TRUE
  /\ frame = NoFrame
  /\ cell_tree = [c \in Cells |-> "array"]
  /\ _jaxpr = Empty
  /\ _out_shapes = Empty
  /\ _jaxpr_out_tree = Empty
  /\ _state_trace = Empty
  /\ cells \in [Cells -> InitVals]
  /\ result = Res("init", <<>>, <<>>, ErrNone)

ReturnsNext ==
  \/ \E args \in Args : make_jaxpr(args)
  \/ \E args \in Args : jaxpr_call_auto(args)
  \/ clear_cache
  \/ AfterCommand /\ \E cache_key \in Keys : get_states(cache_key)
  \/ AfterCommand /\ \E cache_key \in Keys : get_out_treedef(cache_key)

ReturnsSpec == ReturnsInit /\ [][ReturnsNext]_vars

-----------------------------------------------------------------------------
(* Wrappers of targets that are not plain functions                        *)

TargetInit ==
  /\ fun \in TargetFuns
  /\ static_argnums \in {<<>>, <<0>>}
  /\ cache_type \in CacheTypes
  /\ state_returns = DefaultStateReturns
  /\ constructed = TRUE
  /\ frame = NoFrame
  /\ cell_tree = [c \in Cells |-> "array"]
  /\ _jaxpr = Empty
  /\ _out_shapes = Empty
  /\ _jaxpr_out_tree = Empty
  /\ _state_trace = Empty
  /\ cells \in [Cells -> InitVals]
  /\ result = Res("init", <<>>, <<>>, ErrNone)

TargetNext ==
  \/ \E args \in Args : make_jaxpr(args)
  \/ \E args \in Args : jaxpr_call_auto(args)
  \/ clear_cache
  \/ AfterCommand /\ \E cache_key \in Keys : get_states(cache_key)

TargetSpec == TargetInit /\ [][TargetNext]_vars

-----------------------------------------------------------------------------
(* Direct execution: the wrapped function called outside any trace, on     *)
(* the concrete values of the cells                                        *)

RECURSIVE DirectBody(_, _, _, _)
DirectBody(body, i, acc, cur) ==
  IF i > Len(body) THEN [acc |-> acc, cells |-> cur]
  ELSE IF body[i].op = "rd"
       THEN DirectBody(body, i + 1, acc + cur[body[i].cell], cur)
       ELSE DirectBody(body, i + 1, acc, [cur EXCEPT ![body[i].cell] = acc])

\* [out, cells]: the leaves of the returned value and the cells afterwards,
\* for a function that returns None or its accumulator
DirectExec(f, args, cur) ==
  With(DirectBody(f.body, 1, args[1].val, cur),
       LAMBDA d : [out |-> IF f.end = "acc" THEN <<d.acc>> ELSE <<>>,
                   cells |-> d.cells])

-----------------------------------------------------------------------------
(* Properties *)

\* the key is in none of the four cache tables
AbsentEverywhere(key) ==
  /\ key \notin DOMAIN _jaxpr
  /\ key \notin DOMAIN _out_shapes
  /\ key \notin DOMAIN _jaxpr_out_tree
  /\ key \notin DOMAIN _state_trace

\* the error a trace of a function must end with, by how the function ends
TraceOutcome(f) ==
  CASE f.end = "raise" -> ErrUser
    [] f.end = "mismatch" -> ErrTree
    [] f.end \in {"state", "nested"} -> ErrReturnedState
    [] f.end = "badtype" -> ErrCompiler
    [] OTHER -> ErrNone

\* C1 Cache reuse: a make_jaxpr call whose key already has a cache entry does
\* not execute the wrapped function, raises nothing and leaves all four
\* tables as they were; a call whose key has no entry executes the function
\* once.  So of two calls with the same key, with no clear_cache and no
\* failure in between, only the first executes the function.
C1_CacheReuse ==
  [][result'.op = "make_jaxpr" =>
       IF result'.key \in DOMAIN _state_trace
       THEN /\ ~result'.ran
            /\ result'.err = ErrNone
            /\ UNCHANGED tables
       ELSE result'.ran]_vars

\* a second make_jaxpr call with the same arguments found the entry the first
\* one made
C1_Witness ==
  /\ result.op = "make_jaxpr" /\ result.again /\ ~result.ran
  /\ result.key \in DOMAIN _jaxpr
  /\ Len(_state_trace[result.key].states) = 2

\* C2 Rollback on failure: a make_jaxpr call that executed the wrapped
\* function ends with the error its failure calls for (the function raised,
\* a State was returned, a value structure did not match, the trace compiler
\* raised), and after a failed call the key is in none of the four tables.
C2_RollbackOnFailure ==
  (result.op = "make_jaxpr" /\ result.ran) =>
     /\ result.err = TraceOutcome(fun)
     /\ result.err # ErrNone => AbsentEverywhere(result.key)

\* a trace failed in the trace compiler, after the function had touched cells
C2_Witness ==
  /\ result.op = "make_jaxpr" /\ result.ran
  /\ result.err = ErrCompiler
  /\ fun.body # <<>>
  /\ AbsentEverywhere(result.key)

\* C3 A successful trace leaves every State cell, touched or not, with the
\* value it held before the call.
C3_TraceLeavesCells ==
  [][(result'.op = "make_jaxpr" /\ result'.err = ErrNone) => cells' = cells]_vars

\* a trace that read one cell and wrote another has succeeded
C3_Witness ==
  /\ result.op = "make_jaxpr" /\ result.ran /\ result.err = ErrNone
  /\ \E i, j \in 1..Len(fun.body) :
        /\ fun.body[i].op = "rd" /\ fun.body[j].op = "wr"
        /\ fun.body[i].cell # fun.body[j].cell
  /\ \A c \in Cells : cells[c] \in InitVals

\* C4 Cancellation restores state: when the wrapped function raises partway
\* through a trace, every State cell holds its pre-trace value once the error
\* has reached the caller, and the key has no cache entry.
C4_CancellationRestores ==
  [][(result'.op = "make_jaxpr" /\ result'.err = ErrUser) =>
       /\ cells' = cells
       /\ result'.key \notin DOMAIN _jaxpr'
       /\ result'.key \notin DOMAIN _out_shapes'
       /\ result'.key \notin DOMAIN _jaxpr_out_tree'
       /\ result'.key \notin DOMAIN _state_trace']_vars

\* C5 Rejection of returned state: a wrapper whose function returns a State,
\* bare or inside a container, never holds a cache entry, and every
\* make_jaxpr call on it executes the function and fails with the
\* returned-State ValueError.
C5_ReturnedStateRejected ==
  fun.end \in {"state", "nested"} =>
     /\ \A k \in Keys : AbsentEverywhere(k)
     /\ result.op = "make_jaxpr" => (result.ran /\ result.err = ErrReturnedState)

\* the same trace call was repeated on a function that returns a State inside
\* a container, and failed again
C5_Witness ==
  /\ fun.end = "nested"
  /\ result.op = "make_jaxpr" /\ result.again
  /\ result.err = ErrReturnedState

\* f(x) = s.set(x + s.get())
ScenarioF(s) ==
  [body |-> <<[op |-> "rd", cell |-> s], [op |-> "wr", cell |-> s]>>, end |-> "none"]

\* C6 Live write-back: a successful jaxpr_call_auto hands the current value of
\* every recorded cell to the replay, assigns the i-th returned value to the
\* i-th recorded cell and leaves the other cells alone; the cells end as a
\* direct run of the function on the current cells ends, so for
\* f(x) = s.set(x + s.get()) every replay adds x to whatever s holds
\* (10, 15, 20, ... for x = 5, or from a value written in between).
C6_LiveWriteBack ==
  [][(result'.op = "jaxpr_call_auto" /\ result'.err = ErrNone) =>
       LET states == _state_trace[result'.key].states
       IN /\ Len(result'.state_vals) = Len(states)
          /\ Len(result'.new_state_vals) = Len(states)
          /\ \A i \in 1..Len(states) :
                /\ result'.state_vals[i] = cells[states[i]]
                /\ cells'[states[i]] = result'.new_state_vals[i]
          /\ \A c \in Cells \ Range(states) : cells'[c] = cells[c]
          /\ cells' = DirectExec(fun, result'.args, cells).cells
          /\ \A s \in Cells :
                fun = ScenarioF(s) => cells'[s] = cells[s] + result'.args[1].val]_vars

\* s started at 10; the second of two successive jaxpr_call_auto(5) calls
\* found 15 in it and left 20
C6_Witness ==
  /\ fun = ScenarioF("s1")
  /\ result.op = "jaxpr_call_auto" /\ result.again /\ result.err = ErrNone
  /\ result.args[1].val = 5
  /\ result.state_vals = <<15>>
  /\ cells["s1"] = 20

\* C7 Only jaxpr_call_auto changes a State cell: every other call of the
\* wrapper (make_jaxpr, jaxpr_call, the accessors, get_arg_cache_key,
\* clear_cache) leaves every cell with the value it had before the call.
C7_OnlyReplayAutoWrites ==
  [][result'.op \notin {"jaxpr_call_auto", "external_write"} => cells' = cells]_vars

\* the cells preloaded with the state values of a jaxpr_call, by record
PreLoaded(states, state_vals) ==
  [c \in Cells |-> IF c \in Range(states) THEN state_vals[IndexOf(states, c)]
                   ELSE cells[c]]

\* C8 Round-trip: a successful jaxpr_call(state_vals, args) returns the
\* output of a direct run of the function on cells preloaded with
\* state_vals, and as new state values the values that run leaves in the
\* recorded cells, in record order.
C8_RoundTrip ==
  (result.op = "jaxpr_call" /\ result.err = ErrNone) =>
     LET states == _state_trace[result.key].states
         d == DirectExec(fun, result.args, PreLoaded(states, result.state_vals))
     IN /\ result.out = d.out
        /\ Len(result.new_state_vals) = Len(states)
        /\ \A i \in 1..Len(states) : result.new_state_vals[i] = d.cells[states[i]]

\* a replay of a function that reads one cell, writes another and returns a
\* value, on two different state values
C8_Witness ==
  /\ result.op = "jaxpr_call" /\ result.err = ErrNone
  /\ fun.end = "acc"
  /\ Len(result.state_vals) = 2 /\ result.state_vals[1] # result.state_vals[2]
  /\ result.new_state_vals # result.state_vals
  /\ result.args[1].val # 0

\* C9 Replay length check: jaxpr_call on a traced key fails with the
\* length-mismatch error exactly when the number of state values differs
\* from the number of access records of the key, and the failing call
\* changes no table and no cell.
C9_ReplayLengthCheck ==
  [][(result'.op = "jaxpr_call" /\ result'.key \in DOMAIN _state_trace) =>
       LET mismatch == Len(result'.state_vals) # Len(_state_trace[result'.key].states)
       IN /\ (result'.err = ErrLen) = mismatch
          /\ mismatch => UNCHANGED <<tables, cells>>]_vars

\* a replay was refused for being given too many state values
C9_Witness ==
  /\ result.op = "jaxpr_call" /\ result.err = ErrLen
  /\ result.key \in DOMAIN _state_trace
  /\ Len(_state_trace[result.key].states) = 2
  /\ Len(result.state_vals) = 3

\* the accessors, and the two replay calls
AccessorOps == {"get_jaxpr", "get_out_shapes", "get_out_treedef", "get_states",
                "get_read_states", "get_write_states"}

\* C10 Every accessor, jaxpr_call and jaxpr_call_auto called for a key
\* without a cache entry fails with the one not-traced error.
C10_NotTracedSameError ==
  (result.op \in AccessorOps \cup {"jaxpr_call", "jaxpr_call_auto"}
     /\ AbsentEverywhere(result.key))
  => result.err = ErrNotTraced

\* the key has a complete cache entry: it is in all four tables
Ready(key) ==
  /\ key \in DOMAIN _jaxpr
  /\ key \in DOMAIN _out_shapes
  /\ key \in DOMAIN _jaxpr_out_tree
  /\ key \in DOMAIN _state_trace

\* C11 Clear resets: clear_cache leaves all four tables empty; get_states
\* called next for a key that had an entry fails with the not-traced error;
\* and make_jaxpr called next for such a key executes the wrapped function
\* again and, when the trace succeeds, leaves the key in all four tables.
C11_ClearResets ==
  [][/\ result'.op = "clear_cache" =>
          /\ _jaxpr' = Empty /\ _out_shapes' = Empty
          /\ _jaxpr_out_tree' = Empty /\ _state_trace' = Empty
          /\ result'.dropped = DOMAIN _state_trace
     /\ (result.op = "clear_cache" /\ result'.op = "get_states"
           /\ result'.key \in result.dropped) => result'.err = ErrNotTraced
     /\ (result.op = "clear_cache" /\ result'.op = "make_jaxpr"
           /\ result'.key \in result.dropped) =>
          /\ result'.ran /\ result'.retrace
          /\ result'.err = ErrNone
          /\ result'.key \in DOMAIN _jaxpr' /\ result'.key \in DOMAIN _out_shapes'
          /\ result'.key \in DOMAIN _jaxpr_out_tree'
          /\ result'.key \in DOMAIN _state_trace']_vars

\* a key traced, dropped by clear_cache and traced again, for a function that
\* touches both cells
C11_Witness ==
  /\ result.op = "make_jaxpr" /\ result.retrace /\ result.ran
  /\ Ready(result.key)
  /\ Len(_state_trace[result.key].states) = 2

Accessed(body) == {body[i].cell : i \in 1..Len(body)}

\* position of the first statement of the body that names the cell
FirstAccess(body, c) ==
  CHOOSE i \in 1..Len(body) :
    body[i].cell = c /\ \A j \in 1..(i - 1) : body[j].cell # c

\* the category the accesses of a body give a cell: write when its first
\* access is a write, read-write when it is read first and written later,
\* read when it is only read
CategoryOf(body, c) ==
  IF body[FirstAccess(body, c)].op = "wr" THEN "write"
  ELSE IF \E i \in 1..Len(body) : body[i] = [op |-> "wr", cell |-> c] THEN "read-write"
  ELSE "read"

\* value of the i-th state output of the artifact of a key, on the current
\* cells and the given arguments
StateOutput(key, i, args) ==
  LET j == _jaxpr[key]
      env == [v \in Range(j.invars) |->
                IF v \in Range(ArgNames) THEN args[IndexOf(ArgNames, v)].val ELSE cells[v]]
  IN EvalExpr(j.outvars[_jaxpr_out_tree[key].out + i], env)

\* C13 No duplicate access records: the access records of a trace hold every
\* cell the function accessed exactly once, whatever the number of its reads
\* and writes; a cell read first and written later has the one record,
\* categorised read-write; and the value recorded for a cell is the value
\* most recently written to it (the one a direct run leaves in the cell).
C13_NoDuplicateRecords ==
  (result.op = "make_jaxpr" /\ result.err = ErrNone) =>
     LET tr == _state_trace[result.key]
     IN /\ Cardinality(Range(tr.states)) = Len(tr.states)
        /\ Len(tr.types) = Len(tr.states)
        /\ Range(tr.states) = Accessed(fun.body)
        /\ \A i \in 1..Len(tr.states) :
              /\ tr.types[i] = CategoryOf(fun.body, tr.states[i])
              /\ StateOutput(result.key, i, result.args)
                   = DirectExec(fun, result.args, cells).cells[tr.states[i]]

\* a cell read once and then written five times has one record, read-write
C13_Witness ==
  /\ result.op = "make_jaxpr" /\ result.err = ErrNone /\ result.ran
  /\ Len(fun.body) = 6
  /\ fun.body[1] = [op |-> "rd", cell |-> "s1"]
  /\ \A i \in 2..6 : fun.body[i] = [op |-> "wr", cell |-> "s1"]
  /\ _state_trace[result.key] = [states |-> <<"s1">>, types |-> <<"read-write">>]

\* the cells a body names, each once, in the order of their first access
RECURSIVE FirstSeen(_, _, _)
FirstSeen(body, i, seen) ==
  IF i > Len(body) THEN seen
  ELSE FirstSeen(body, i + 1,
                 IF body[i].cell \in Range(seen) THEN seen ELSE Append(seen, body[i].cell))

\* the access records a trace of the function must leave
RecordsOf(f) ==
  LET order == FirstSeen(f.body, 1, <<>>)
  IN [states |-> order,
      types |-> [i \in 1..Len(order) |-> CategoryOf(f.body, order[i])]]

\* C14 First-seen order and determinism: the access records stored for a key
\* list the accessed cells in the one order of their first access, whatever
\* their categories (a record upgraded by a later write keeps its place), and
\* get_states returns the cells in that order; the records are determined by
\* the function alone, so every trace of it, the first or one made again
\* after clear_cache, leaves records of the same length, order and
\* categories.
C14_FirstSeenOrder ==
  /\ \A k \in DOMAIN _state_trace : _state_trace[k] = RecordsOf(fun)
  /\ (result.op = "get_states" /\ result.err = ErrNone) =>
       result.states = FirstSeen(fun.body, 1, <<>>)

\* traced, cleared and traced again: s1 is read first, s2 is written next,
\* then s1 is written; s1's upgraded record stays first
C14_Witness ==
  /\ result.op = "make_jaxpr" /\ result.retrace /\ result.ran
  /\ result.key \in DOMAIN _state_trace
  /\ Len(fun.body) >= 3
  /\ SubSeq(fun.body, 1, 3) = <<[op |-> "rd", cell |-> "s1"], [op |-> "wr", cell |-> "s2"],
                                 [op |-> "wr", cell |-> "s1"]>>
  /\ _state_trace[result.key] =
       [states |-> <<"s1", "s2">>, types |-> <<"read-write", "write">>]

\* C15 Target validation before tracing: make_jaxpr on a wrapper whose target
\* is not callable, is a generator function or is a staticmethod object
\* fails with the TypeError of _check_callable before _wrapped_fun_to_eval is
\* entered (no StateTrace opened, the target not called), and no table ever
\* holds an entry.
C15_TargetValidatedFirst ==
  fun.end \in TargetEnds =>
     /\ \A k \in Keys : AbsentEverywhere(k)
     /\ result.op = "make_jaxpr" => (result.err = ErrCheck /\ ~result.ran)

\* the designated static positions at which a call has an argument, in the
\* order static_argnums lists them
StaticPositions(args) ==
  LET given(i) == i < Len(args)
  IN SelectSeq(static_argnums, given)

\* two calls agree on every designated static position: each position holds
\* an argument in both or in neither, and the same one
AgreeOnStatic(a, b) ==
  \A i \in Range(static_argnums) :
    /\ (i < Len(a)) = (i < Len(b))
    /\ i < Len(a) => a[i + 1] = b[i + 1]

\* C17 Static-only key policy: with cache_type None the key of a call is the
\* tuple of its arguments at the designated static positions, and another
\* call gets the same key if and only if the two agree on every designated
\* static position, whatever their other arguments are.
C17_StaticOnlyKey ==
  (cache_type = "None" /\ result.op = "get_arg_cache_key") =>
     LET a == result.args
         st == StaticPositions(a)
     IN /\ Len(result.key) = Len(st)
        /\ \A j \in 1..Len(st) : result.key[j] = a[st[j] + 1]
        /\ \A b \in KeyArgs :
              (get_arg_cache_key(b) = result.key) = AgreeOnStatic(a, b)

\* position 1 is static: a call whose dynamic first argument differs from
\* another call's in shape and value, with the same second argument, has the
\* key of that argument alone
C17_Witness ==
  /\ cache_type = "None" /\ static_argnums = <<1>>
  /\ result.op = "get_arg_cache_key"
  /\ Len(result.args) = 2
  /\ result.key = <<result.args[2]>>
  /\ \E b \in KeyArgs :
       /\ Len(b) = 2 /\ b[1].shape # result.args[1].shape /\ b[1].val # result.args[1].val
       /\ get_arg_cache_key(b) = result.key

\* the positions of a call that are static, and those that are dynamic, in
\* argument order
StaticArgs(args) ==
  LET pos == [i \in 1..Len(args) |-> i]
      isStatic(i) == (i - 1) \in Range(static_argnums)
      st == SelectSeq(pos, isStatic)
  IN [j \in 1..Len(st) |-> args[st[j]]]

DynamicArgs(args) ==
  LET pos == [i \in 1..Len(args) |-> i]
      isDyn(i) == (i - 1) \notin Range(static_argnums)
      dy == SelectSeq(pos, isDyn)
  IN [j \in 1..Len(dy) |-> args[dy[j]]]

\* two calls agree on the static values and on the descriptor (not the data)
\* of every dynamic leaf
SameAbstract(a, b) ==
  /\ StaticArgs(a) = StaticArgs(b)
  /\ Len(DynamicArgs(a)) = Len(DynamicArgs(b))
  /\ \A j \in 1..Len(DynamicArgs(a)) : DynamicArgs(a)[j].shape = DynamicArgs(b)[j].shape

\* C18 Abstract key policy: with cache_type 'jit' the key is (static values,
\* descriptors of the dynamic positional leaves, descriptors of the keyword
\* leaves) and holds no concrete data of a dynamic argument; two calls have
\* the same key exactly when they agree on the static values and on every
\* dynamic leaf's descriptor.  So a make_jaxpr whose call agrees in that way
\* with a call whose key is cached does not execute the function, and one
\* that agrees with none does.
C18_AbstractKey ==
  [][cache_type = "jit" =>
       /\ result'.op = "get_arg_cache_key" =>
            LET a == result'.args
            IN /\ result'.key = << StaticArgs(a),
                                   [j \in 1..Len(DynamicArgs(a)) |->
                                      [shape |-> DynamicArgs(a)[j].shape]],
                                   <<>> >>
               /\ \A b \in KeyArgs :
                     (get_arg_cache_key(b) = result'.key) = SameAbstract(a, b)
       /\ result'.op = "make_jaxpr" =>
            (~result'.ran) =
               (\E a \in KeyArgs : /\ get_arg_cache_key(a) \in DOMAIN _state_trace
                                    /\ SameAbstract(a, result'.args))]_vars

\* a make_jaxpr right after a make_jaxpr of a call with another value of the
\* dynamic argument and the same descriptors: the function is not executed,
\* and the wrapper holds the one key
C18_Witness ==
  /\ cache_type = "jit" /\ static_argnums = <<1>>
  /\ result.op = "make_jaxpr" /\ result.samekey /\ ~result.ran
  /\ Len(result.args) = 2
  /\ DOMAIN _state_trace = {result.key}

\* the recorded cells whose category is among the given ones, in record order
StatesInCategories(tr, cats) ==
  LET idx == [i \in 1..Len(tr.states) |-> i]
      has(i) == InCategories(tr.types[i], cats)
      sel == SelectSeq(idx, has)
  IN [j \in 1..Len(sel) |-> tr.states[sel[j]]]

\* C19 State-return category selection: the cells carried by the state
\* outputs of the artifact of a key, and the cells get_states returns for
\* it, are the recorded cells whose category is among state_returns: the
\* cells read for 'read', the cells written for 'write', all for both.
C19_StateReturnsSelects ==
  /\ \A k \in DOMAIN _state_trace \cap DOMAIN _jaxpr_out_tree :
       _jaxpr_out_tree[k].states
         = Len(StatesInCategories(_state_trace[k], Range(state_returns)))
  /\ (result.op = "get_states" /\ result.err = ErrNone) =>
       result.states = StatesInCategories(_state_trace[result.key], Range(state_returns))

\* C20 Invalid cache-key policy: constructing a wrapper with a cache_type other
\* than None or 'jit' fails in the constructor, so every wrapper that exists has
\* one of the two policies and no call of get_arg_cache_key (alone or inside
\* make_jaxpr) ends in the invalid-cache-type error.
C20_InvalidPolicyRejected ==
  /\ constructed => cache_type \in {"None", "jit"}
  /\ result.op = "__init__" =>
       /\ (result.err = ErrNone) <=> (result.args[1] \in {"None", "jit"})
       /\ (result.err # ErrNone) => (result.err = ErrAssert /\ ~constructed)
       /\ (result.err = ErrNone) => (constructed /\ cache_type = result.args[1])
  /\ result.err # ErrInvalidCache

\* a construction with cache_type 'lru' has failed and left no wrapper
C20_Witness ==
  /\ result.op = "__init__"
  /\ result.args = <<"lru">>
  /\ result.err = ErrAssert
  /\ ~constructed

\* C21 No key is observable in the tracing state: whenever a call on the
\* wrapper can start, from its caller or from inside self.fun while the
\* wrapper traces, every key that has access records is in all four tables,
\* and a get_states call that found records for a key found a key that has an
\* artifact.
C21_NoKeyObservedTracing ==
  /\ \A k \in DOMAIN _state_trace : Ready(k)
  /\ (result.op = "get_states" /\ result.err = ErrNone) =>
       (result.key \in DOMAIN _state_trace => result.key \in DOMAIN _jaxpr)

\* number of leaves of the value the function returns
ResultLeaves(f) == IF f.end = "acc" THEN 1 ELSE 0

\* C22 Artifact input/output layout: after a successful trace the artifact's
\* inputs are the non-static arguments followed by one input per access
\* record in record order, and its outputs are the leaves of the result
\* followed by one output per accessed cell in the same order, the cells only
\* read included; a cell's value enters as an input (the output of a cell
\* only read is that input itself), never as a constant.
C22_ArtifactLayout ==
  (result.op = "make_jaxpr" /\ result.err = ErrNone) =>
     LET j == _jaxpr[result.key]
         tr == _state_trace[result.key]
         nargs == Len(DynamicArgs(result.args))
         nres == ResultLeaves(fun)
     IN /\ Len(j.invars) = nargs + Len(tr.states)
        /\ \A i \in 1..nargs : j.invars[i] \in Range(ArgNames)
        /\ \A i \in 1..Len(tr.states) : j.invars[nargs + i] = tr.states[i]
        /\ Len(j.outvars) = nres + Len(tr.states)
        /\ _jaxpr_out_tree[result.key] = [out |-> nres, states |-> Len(tr.states)]
        /\ tr.states = FirstSeen(fun.body, 1, <<>>)
        /\ \A i \in 1..Len(tr.states) :
             tr.types[i] = "read" => j.outvars[nres + i] = InputSym(tr.states[i])

\* f(x) reads s2, assigns to s1 and returns a value: three inputs (x, s2, s1)
\* and three outputs (the result, s2, s1)
C22_Witness ==
  /\ result.op = "make_jaxpr" /\ result.err = ErrNone /\ result.ran
  /\ fun = [body |-> <<[op |-> "rd", cell |-> "s2"], [op |-> "wr", cell |-> "s1"]>>,
            end |-> "acc"]
  /\ _jaxpr[result.key].invars = <<"x", "s2", "s1">>
  /\ Len(_jaxpr[result.key].outvars) = 3

\* C23 Outputs for written cells only: the outputs of the artifact of a
\* successful trace are the leaves of the result followed by one output per
\* record categorised write or read-write, in record order; a cell only read
\* has an input and no output.
C23_OutputsForWrittenOnly ==
  (result.op = "make_jaxpr" /\ result.err = ErrNone) =>
     LET tr == _state_trace[result.key]
         written == StatesInCategories(tr, {"write"})
     IN /\ Len(_jaxpr[result.key].outvars) = ResultLeaves(fun) + Len(written)
        /\ _jaxpr_out_tree[result.key].states = Len(written)
        /\ Range(tr.states) \subseteq Range(_jaxpr[result.key].invars)

\* what the artifact of the call's key computes at its i-th state output when
\* the argument inputs are bound to the call's arguments and the input of
\* the n-th record to the n-th state value handed in
OutputAtRecord(r, i) ==
  LET j == _jaxpr[r.key]
      states == _state_trace[r.key].states
      env == [v \in Range(j.invars) |->
                IF v \in Range(ArgNames) THEN r.args[IndexOf(ArgNames, v)].val
                ELSE r.state_vals[IndexOf(states, v)]]
  IN EvalExpr(j.outvars[_jaxpr_out_tree[r.key].out + i], env)

\* a finished replay handed back one value per state value handed in, the
\* i-th being the output the artifact has for the i-th record
PositionsKept(r) ==
  LET states == _state_trace[r.key].states
  IN /\ Len(r.state_vals) = Len(states)
     /\ Len(r.new_state_vals) = Len(r.state_vals)
     /\ \A i \in 1..Len(states) : r.new_state_vals[i] = OutputAtRecord(r, i)

\* C24 Replay preserves positions: a successful jaxpr_call or jaxpr_call_auto
\* returns as many new state values as state values were handed in; the
\* artifact's inputs are bound in the order of trace time (the non-static
\* arguments, then the state values in record order), so the i-th returned
\* value is the artifact's output for the i-th record; and jaxpr_call_auto
\* assigns the i-th returned value to the i-th recorded cell and changes no
\* other cell.
C24_ReplayKeepsPositions ==
  [][/\ (result'.op \in {"jaxpr_call", "jaxpr_call_auto"} /\ result'.err = ErrNone) =>
          PositionsKept(result')
     /\ (result'.op = "jaxpr_call_auto" /\ result'.err = ErrNone) =>
          LET states == _state_trace[result'.key].states
          IN \A c \in Cells :
               cells'[c] = IF c \in Range(states)
                           THEN result'.new_state_vals[IndexOf(states, c)]
                           ELSE cells[c]]_vars

\* a replay with a dynamic argument and two records: s2, only read, comes
\* back as handed in at position 1, s1 comes back changed at position 2
C24_Witness ==
  /\ result.op = "jaxpr_call" /\ result.err = ErrNone
  /\ static_argnums = <<>>
  /\ result.key \in DOMAIN _state_trace
  /\ _state_trace[result.key].states = <<"s2", "s1">>
  /\ result.state_vals = <<5, 10>>
  /\ result.new_state_vals[1] = 5
  /\ result.new_state_vals[2] # 10

\* C25 Read-only cells pass through replay unchanged: in a successful
\* jaxpr_call or jaxpr_call_auto the value returned at the position of a
\* record categorised read is the state value handed in at that position,
\* and after jaxpr_call_auto that cell holds the value it held before; at the
\* position of a written cell the returned value is the value of the last
\* write (the one a direct run leaves in the cell), which jaxpr_call_auto
\* stores in the cell.
C25_ReadOnlyPassThrough ==
  (result.op \in {"jaxpr_call", "jaxpr_call_auto"} /\ result.err = ErrNone) =>
     LET tr == _state_trace[result.key]
         d == DirectExec(fun, result.args, PreLoaded(tr.states, result.state_vals))
     IN \A i \in 1..Len(tr.states) :
          /\ tr.types[i] = "read" => result.new_state_vals[i] = result.state_vals[i]
          /\ tr.types[i] # "read" => result.new_state_vals[i] = d.cells[tr.states[i]]
          /\ result.op = "jaxpr_call_auto" =>
               cells[tr.states[i]] = IF tr.types[i] = "read" THEN result.state_vals[i]
                                     ELSE d.cells[tr.states[i]]

\* f(x) returns x + s2 and stores it in s1; after jaxpr_call_auto(5) s2 still
\* holds 10 and s1 holds 15
C25_Witness ==
  /\ result.op = "jaxpr_call_auto" /\ result.err = ErrNone
  /\ result.args[1].val = 5
  /\ result.key \in DOMAIN _state_trace
  /\ _state_trace[result.key] = [states |-> <<"s2", "s1">>, types |-> <<"read", "write">>]
  /\ fun.end = "acc"
  /\ result.state_vals[1] = 10
  /\ cells = [s1 |-> 15, s2 |-> 10]

\* C26 Structural mismatch during trace: a make_jaxpr call whose function
\* assigns to a cell a value of a structure other than the cell's fails with
\* the structural-mismatch error, leaves the key in none of the four tables
\* and leaves the cell (and every other cell) holding its pre-trace value.
C26_TraceMismatch ==
  [][(result'.op = "make_jaxpr" /\ result'.ran /\ fun.end = "mismatch") =>
       /\ result'.err = ErrTree
       /\ result'.key \notin DOMAIN _jaxpr'
       /\ result'.key \notin DOMAIN _out_shapes'
       /\ result'.key \notin DOMAIN _jaxpr_out_tree'
       /\ result'.key \notin DOMAIN _state_trace'
       /\ cells'[MismatchCell] = cells[MismatchCell]]_vars

\* C27 Structural mismatch at replay: jaxpr_call on a traced key, given the
\* right number of state values of which some has a tree structure other
\* than the one recorded for its cell at trace time (an array), fails with
\* the structural-mismatch error and returns nothing.
C27_ReplayMismatch ==
  (/\ result.op = "jaxpr_call"
   /\ result.key \in DOMAIN _state_trace
   /\ Len(result.state_vals) = Len(_state_trace[result.key].states)
   /\ \E i \in 1..Len(result.state_vals) : result.state_vals[i].tree # "array")
  => /\ result.err = ErrTree
     /\ result.out = <<>>
     /\ result.new_state_vals = <<>>

\* C28 Cache tables stay aligned at rest: after any sequence of completed
\* make_jaxpr (successful or failed), jaxpr_call, jaxpr_call_auto, accessor
\* and clear_cache calls the four tables have the same set of keys.
C28_TablesAligned ==
  /\ DOMAIN _jaxpr = DOMAIN _state_trace
  /\ DOMAIN _out_shapes = DOMAIN _state_trace
  /\ DOMAIN _jaxpr_out_tree = DOMAIN _state_trace

\* two keys are cached and a replay of one of them has just completed
C28_Witness ==
  /\ result.op = "jaxpr_call_auto" /\ result.err = ErrNone
  /\ Cardinality(DOMAIN _state_trace) = 2
  /\ DOMAIN _jaxpr = DOMAIN _state_trace
  /\ result.key \in DOMAIN _jaxpr

\* the entry of a key in a table is the same before and after the step
SameEntry(before, after, k) ==
  /\ (k \in DOMAIN after) = (k \in DOMAIN before)
  /\ k \in DOMAIN before => after[k] = before[k]

\* C29 Other keys are untouched: a make_jaxpr call for a key, whether it
\* succeeds or fails and rolls back, leaves the artifact, the output
\* structure, the output shapes and the access records of every other key as
\* they were; a failed trace removes or alters no entry that was ready.
C29_OtherKeysUntouched ==
  [][result'.op = "make_jaxpr" =>
       \A k \in Keys \ {result'.key} :
          /\ SameEntry(_jaxpr, _jaxpr', k)
          /\ SameEntry(_out_shapes, _out_shapes', k)
          /\ SameEntry(_jaxpr_out_tree, _jaxpr_out_tree', k)
          /\ SameEntry(_state_trace, _state_trace', k)]_vars

\* a trace for x = 5 has failed and rolled back while the entry traced for
\* x = 0 is ready
C29_Witness ==
  /\ result.op = "make_jaxpr" /\ result.ran /\ result.err = ErrUser
  /\ AbsentEverywhere(result.key)
  /\ \E k \in Keys \ {result.key} : Ready(k) /\ _state_trace[k].states # <<>>

\* a lists some of the elements of b, each once, in the order b has them
IsSubSeq(a, b) ==
  LET in(x) == x \in Range(a)
  IN SelectSeq(b, in) = a

\* C30 Read/written accessors partition the accessed cells: for every key
\* with access records, what get_read_states and get_write_states return are
\* disjoint, each lists cells of get_states in the same relative order, every
\* accessed cell is in one of them, and a cell read and later written is in
\* what get_write_states returns.
C30_AccessorsPartition ==
  /\ \A k \in DOMAIN _state_trace :
       LET tr == _state_trace[k]
           rd == StatesOfType(tr, "read")
           wr == StatesOfType(tr, "write")
       IN /\ Range(rd) \cap Range(wr) = {}
          /\ IsSubSeq(rd, tr.states)
          /\ IsSubSeq(wr, tr.states)
          /\ Range(rd) \cup Range(wr) = Range(tr.states)
          /\ \A i \in 1..Len(tr.states) :
               tr.types[i] = "read-write" => tr.states[i] \in Range(wr)
  /\ (result.op = "get_read_states" /\ result.err = ErrNone) =>
       result.states = StatesOfType(_state_trace[result.key], "read")
  /\ (result.op = "get_write_states" /\ result.err = ErrNone) =>
       result.states = StatesOfType(_state_trace[result.key], "write")

\* C31 One key for every call: with the static-only policy and no static
\* position every call has the key (); once () has an entry a make_jaxpr
\* call with arguments of any shape or count executes nothing and leaves the
\* tables as they are, so the accessors keep returning the first trace's
\* artifact and states; and jaxpr_call with the new arguments is not refused
\* as untraced or mismatching: it evaluates the stored artifact, returning
\* its result when the number of inputs fits and failing inside the
\* evaluation when it does not.
C31_OneKeyForAll ==
  [][(cache_type = "None" /\ static_argnums = <<>>) =>
       /\ result'.op \in {"make_jaxpr", "jaxpr_call", "get_arg_cache_key"} =>
            result'.key = <<>>
       /\ (result'.op = "make_jaxpr" /\ <<>> \in DOMAIN _state_trace) =>
            /\ ~result'.ran
            /\ result'.err = ErrNone
            /\ UNCHANGED tables
       /\ (result'.op \in {"get_states", "get_jaxpr"} /\ Ready(<<>>)) =>
            /\ result'.err = ErrNone
            /\ UNCHANGED tables
       /\ (/\ result'.op = "jaxpr_call"
           /\ Ready(<<>>)
           /\ Len(result'.state_vals) = Len(_state_trace[<<>>].states)) =>
            LET fits == Len(result'.args) + Len(result'.state_vals)
                          = Len(_jaxpr[<<>>].invars)
            IN /\ result'.err = (IF fits THEN ErrNone ELSE ErrCompiler)
               /\ fits =>
                    /\ result'.new_state_vals
                         = <<result'.args[1].val + result'.state_vals[1]>>
                    /\ result'.out = IF fun.end = "acc"
                                     THEN result'.new_state_vals ELSE <<>>]_vars

\* the artifact was traced for an argument of shape f32[1]; a replay with an
\* argument of shape f32[2] has run it and returned
C31_Witness ==
  /\ result.op = "jaxpr_call" /\ result.err = ErrNone
  /\ Ready(<<>>)
  /\ _out_shapes[<<>>].out = <<"f32[1]">>
  /\ result.args[1].shape = "f32[2]"
  /\ result.out # <<>>

\* C32 jaxpr_call_auto is all-or-nothing on error: a jaxpr_call_auto call
\* that raises (the key is not traced, the evaluation of the artifact fails,
\* or the assignment of a returned value to a recorded cell is rejected)
\* leaves every State cell holding the value it held before the call.
C32_ReplayAutoAllOrNothing ==
  [][(result'.op = "jaxpr_call_auto" /\ result'.err # ErrNone) => cells' = cells]_vars

\* the dynamic positional arguments of a call
DynOf(call) ==
  LET isDyn(i) == (i - 1) \notin Range(static_argnums)
      dy == SelectSeq([i \in 1..Len(call.args) |-> i], isDyn)
  IN [j \in 1..Len(dy) |-> call.args[dy[j]]]

\* the shape of the containers of a call's dynamic arguments: how the leaves
\* are nested and split between the arguments, and the keyword names
StructureOf(call) ==
  [args |-> [j \in 1..Len(DynOf(call)) |->
               [tree |-> DynOf(call)[j].tree, n |-> Len(DynOf(call)[j].leaves)]],
   names |-> [j \in 1..Len(call.kwargs) |-> call.kwargs[j].name]]

\* the descriptors of the dynamic leaves of a call, flattened in order
FlatDescriptors(call) ==
  LET ls == LeavesOf(DynOf(call)) \o LeavesOf(call.kwargs)
  IN [j \in 1..Len(ls) |-> ls[j].shape]

\* C33 The abstract key distinguishes calls by argument structure: two calls
\* whose dynamic arguments flatten to the same list of leaf descriptors but
\* differ in nesting, in the split of the leaves between the arguments or in
\* keyword names get different keys.
C33_KeySeesStructure ==
  [][(/\ result.op = "get_arg_cache_key"
      /\ result'.op = "get_arg_cache_key"
      /\ FlatDescriptors(result.args) = FlatDescriptors(result'.args)
      /\ StructureOf(result.args) # StructureOf(result'.args))
     => result'.key # result.key]_vars

====
